---- MODULE Spec2Model ----
(***************************************************************************)
(* Model of BountyTimelineScraper (src/scraper.py): the reconciliation of  *)
(* the target IDs against the results store, the fetch loop with its       *)
(* in-memory batch, the append to the results store, and the handling of   *)
(* errors and of the browser session in run().                             *)
(***************************************************************************)
EXTENDS Integers, Sequences, FiniteSets, TLC

\* ---------------------------------------------------------------- bounds
MaxId == 2          \* question ids are 1..MaxId
MaxIdsRows == 3     \* rows of the target-ID table, under SpecReconcile
MaxStoreRows == 2   \* rows of the results store before the run, under SpecReconcile
MaxBatch == 2       \* configured batch sizes are 0..MaxBatch
MaxReadFailures == 1  \* runs in which reading the results store raises
MaxWrites == 2      \* calls of _save_results that write, under SpecSave
MaxRows == 2        \* history rows of a timeline page, under SpecExtract

Ids == 1..MaxId

\* ------------------------------------------------------- sequence helpers
Range(s) == {s[i] : i \in 1..Len(s)}

SeqsUpTo(S, n) == UNION {[1..k -> S] : k \in 0..n}

\* all orderings of a finite set, as sequences without repetition
Orderings(S) ==
    {s \in [1..Cardinality(S) -> S] : \A i, j \in 1..Cardinality(S) : s[i] = s[j] => i = j}

NoDuplicates(s) == \A i, j \in 1..Len(s) : s[i] = s[j] => i = j

IsPrefix(s, t) == Len(s) <= Len(t) /\ SubSeq(t, 1, Len(s)) = s

\* "needle in text" for texts modelled as sequences of words
Contains(text, needle) ==
    \E i \in 0..(Len(text) - Len(needle)) :
        SubSeq(text, i + 1, i + Len(needle)) = needle

\* ------------------------------------------------- timeline page contents
\* A text is a sequence of words, a title attribute a sequence of characters
\* (a timestamp body is one token).  None is Python's None, NoCell a cell the
\* row does not have.
None == <<"None">>
NoCell == <<"NoCell">>

StripChars == {"\"", "[", "]", "'"}

RECURSIVE LStrip(_)
LStrip(s) == IF s # <<>> /\ Head(s) \in StripChars THEN LStrip(Tail(s)) ELSE s

RECURSIVE RStrip(_)
RStrip(s) ==
    IF s # <<>> /\ s[Len(s)] \in StripChars THEN RStrip(SubSeq(s, 1, Len(s) - 1)) ELSE s

\* date.strip('"[]\'')
Strip(s) == RStrip(LStrip(s))

\* the cleaned timestamp of a row: None and the empty title are left as they are
CleanDate(title) == IF title # None /\ title # <<>> THEN Strip(title) ELSE title

BountyStarted == <<"bounty", "started">>
BountyEnded == <<"bounty", "ended">>

\* rows that have both cells, in document order
RECURSIVE BountyDates(_, _)
BountyDates(rows, needle) ==
    IF rows = <<>> THEN <<>>
    ELSE LET row == Head(rows)
             rest == BountyDates(Tail(rows), needle)
         IN IF row.event_cell # NoCell /\ row.date_cell # NoCell
                 /\ Contains(row.event_cell, needle)
            THEN <<CleanDate(row.date_cell)>> \o rest
            ELSE rest

\* a row has both the td.wmn1 cell and the span.relativetime cell
Complete(row) == row.event_cell # NoCell /\ row.date_cell # NoCell

\* the second test written as elif: a label with both texts only starts
ScrapeResultElif(question_id, rows) ==
    LET NotStarted(row) == ~(Complete(row) /\ Contains(row.event_cell, BountyStarted))
    IN [question_id |-> question_id,
        bounty_start |-> BountyDates(rows, BountyStarted),
        bounty_end |-> BountyDates(SelectSeq(rows, NotStarted), BountyEnded)]

\* the dict returned by _scrape_timeline_events for a page that was fetched
ScrapeResult(question_id, rows) ==
    [question_id |-> question_id,
     bounty_start |-> BountyDates(rows, BountyStarted),
     bounty_end |-> BountyDates(rows, BountyEnded)]

\* the rows of the timeline page the site serves for a question
Timeline(question_id) ==
    IF question_id % 2 = 1
    THEN << [event_cell |-> <<"bounty", "started">>, date_cell |-> <<"\"", "T1", "\"">>],
            [event_cell |-> NoCell, date_cell |-> <<"T2">>],
            [event_cell |-> <<"bounty", "ended">>, date_cell |-> <<"T3">>] >>
    ELSE <<>>

\* a row of the store written by an earlier harvest
EarlierRow(id) == [question_id |-> id, bounty_start |-> <<>>, bounty_end |-> <<>>]

EarlierRows(ids) == [i \in 1..Len(ids) |-> EarlierRow(ids[i])]

\* the ids of S in ascending order
Ascending(S) == CHOOSE s \in Orderings(S) : \A i, j \in 1..Len(s) : i < j => s[i] < s[j]

QuestionIdsOf(rows) == {rows[i].question_id : i \in 1..Len(rows)}

\* ------------------------------------------------------------------ state
VARIABLES
    idsRows,       \* question_id column of the target-ID table (ids_path)
    storeExists,   \* os.path.exists(results_path)
    store,         \* rows of the results store (results_path)
    batch_size,    \* self.batch_size
    site,          \* the timeline rows the site serves for each question id
    later,         \* the current process was started after an earlier one ended
    readFailures,  \* runs so far in which reading the store raised
    pc,            \* position of the current run in run()
    src,           \* what the run found at ids_path: "ok", "missing", "unreadable"
    readOk,        \* the run read the results store without an exception
    question_ids,  \* the list returned by _get_unprocessed_question_ids
    idx,           \* position of the for loop in question_ids
    results,       \* the in-memory batch
    driver,        \* self.driver: "none", "active", "quit"
    acquired,      \* browser sessions created by this run
    released,      \* calls of driver.quit() by this run
    abort,         \* the exception that ended the run's work, "none" if none
    raising,       \* the exception now propagating: "none", "exception", "interrupt"
    saveFailed,    \* a write of _save_results raised in this run
    outcome,       \* "running", "returned", "raised", "killed"
    fetched,       \* ids passed to driver.get by this run, in order
    failed,        \* ids whose fetch or parse raised in this run
    flushed,       \* rows this run appended to the store, in order
    stats,         \* the batch statistics this run logged, one record per line
    store0,        \* the store's rows when this run started
    lost           \* ids of the results in memory when the process was killed

vars == <<idsRows, storeExists, store, batch_size, site, stats, later, readFailures, pc, src, readOk,
          question_ids, idx, results, driver, acquired, released, abort, raising,
          saveFailed, outcome, fetched, failed, flushed, stats, store0, lost>>

files == <<idsRows, batch_size, site>>
session == <<driver, acquired, released>>
history == <<fetched, failed, flushed, stats, store0, lost, later, readFailures>>

\* the state of a fresh scraper object whose run() has just been called
Init ==
    /\ idsRows \in {Ascending(T) : T \in SUBSET Ids}
    /\ storeExists \in BOOLEAN
    /\ store \in {EarlierRows(Ascending(P)) : P \in SUBSET Ids}
    /\ (~storeExists => store = <<>>)
    /\ batch_size \in 0..MaxBatch
    /\ site = [id \in Ids |-> Timeline(id)]
    /\ later = FALSE
    /\ readFailures = 0
    /\ pc = "start"
    /\ src = "ok"
    /\ readOk = TRUE
    /\ question_ids = <<>>
    /\ idx = 1
    /\ results = <<>>
    /\ driver = "none"
    /\ acquired = 0
    /\ released = 0
    /\ abort = "none"
    /\ raising = "none"
    /\ saveFailed = FALSE
    /\ outcome = "running"
    /\ fetched = <<>>
    /\ failed = {}
    /\ flushed = <<>>
    /\ stats = <<>>
    /\ store0 = store
    /\ lost = {}

\* ------------------------------------------------- processes and reruns
Ended == pc \in {"done", "killed"}

\* run() is entered: by the first process, or by a new process started on the
\* same files after the earlier one ended (__init__ sets self.driver = None)
Entering == pc = "start" \/ Ended

NewRun ==
    /\ later' = (later \/ Ended)
    /\ store0' = store
    /\ idx' = 1
    /\ results' = <<>>
    /\ driver' = "none"
    /\ acquired' = 0
    /\ released' = 0
    /\ saveFailed' = FALSE
    /\ fetched' = <<>>
    /\ failed' = {}
    /\ flushed' = <<>>
    /\ stats' = <<>>
    /\ lost' = {}
    /\ UNCHANGED <<files, storeExists, store>>

\* ------------------------------------------------------------ reconciler
\* set(all_bounty_ids_df['question_id'].tolist())
AllBountyIds == Range(idsRows)

\* processed_ids left empty although the store was read
ProcessedIdsDiscarded(ok) == {}

\* processed_ids: empty unless the store exists and was read
ProcessedIds(ok) == IF storeExists /\ ok THEN QuestionIdsOf(store) ELSE {}

\* the difference not taken
UnprocessedIdsAll(all, processed) == all

\* all_bounty_ids - processed_ids
UnprocessedIds(all, processed) == all \ processed

\* the list built from the column without set(): an id may come twice
ListWithRepeats(S) == {s \in SeqsUpTo(S, Cardinality(S) + 1) : Range(s) = S}

\* list(...) of a set: some ordering of its elements
ListOf(S) == Orderings(S)

\* a missing ids_path raising like an unreadable one
ReconcileSourceMissingRaises ==
    /\ Entering
    /\ NewRun
    /\ src' = "missing"
    /\ readOk' = TRUE
    /\ question_ids' = <<>>
    /\ abort' = "source"
    /\ raising' = "exception"
    /\ pc' = "done"
    /\ outcome' = "raised"
    /\ UNCHANGED readFailures

\* ids_path does not exist: the error is logged, [] returned, and run returns
ReconcileSourceMissing ==
    /\ Entering
    /\ NewRun
    /\ src' = "missing"
    /\ readOk' = TRUE
    /\ question_ids' = <<>>
    /\ abort' = "none"
    /\ raising' = "none"
    /\ pc' = "done"
    /\ outcome' = "returned"
    /\ UNCHANGED readFailures

\* pd.read_parquet(ids_path) raises: nothing in run catches it
ReconcileSourceUnreadable ==
    /\ Entering
    /\ NewRun
    /\ src' = "unreadable"
    /\ readOk' = TRUE
    /\ question_ids' = <<>>
    /\ abort' = "source"
    /\ raising' = "exception"
    /\ pc' = "done"
    /\ outcome' = "raised"
    /\ UNCHANGED readFailures

\* the store read without its try/except: a read error leaves run
ReconcileStoreReadRaises ==
    /\ Entering
    /\ NewRun
    /\ \E ok \in (IF storeExists /\ readFailures < MaxReadFailures THEN BOOLEAN ELSE {TRUE}) :
        /\ readOk' = ok
        /\ readFailures' = IF ok THEN readFailures ELSE readFailures + 1
        /\ IF ok
           THEN question_ids' \in ListOf(UnprocessedIds(AllBountyIds, ProcessedIds(ok)))
           ELSE question_ids' = <<>>
        /\ abort' = IF ok THEN "none" ELSE "source"
        /\ raising' = IF ok THEN "none" ELSE "exception"
        /\ IF ~ok THEN pc' = "done" /\ outcome' = "raised"
           ELSE IF question_ids' = <<>>
           THEN pc' = "done" /\ outcome' = "returned"
           ELSE pc' = "configure" /\ outcome' = "running"
    /\ src' = "ok"

\* run without the return of lines 257-259: an empty list reaches the browser
ReconcileNoEarlyReturn ==
    /\ Entering
    /\ NewRun
    /\ \E ok \in (IF storeExists /\ readFailures < MaxReadFailures THEN BOOLEAN ELSE {TRUE}) :
        /\ readOk' = ok
        /\ readFailures' = IF ok THEN readFailures ELSE readFailures + 1
        /\ question_ids' \in ListOf(UnprocessedIds(AllBountyIds, ProcessedIds(ok)))
    /\ src' = "ok"
    /\ abort' = "none"
    /\ raising' = "none"
    /\ pc' = "configure"
    /\ outcome' = "running"

\* both tables handled: the pending list is some ordering of the difference;
\* run returns at line 259 when it is empty
Reconcile ==
    /\ Entering
    /\ NewRun
    /\ \E ok \in (IF storeExists /\ readFailures < MaxReadFailures THEN BOOLEAN ELSE {TRUE}) :
        /\ readOk' = ok
        /\ readFailures' = IF ok THEN readFailures ELSE readFailures + 1
        /\ question_ids' \in ListOf(UnprocessedIds(AllBountyIds, ProcessedIds(ok)))
    /\ src' = "ok"
    /\ abort' = "none"
    /\ raising' = "none"
    /\ IF question_ids' = <<>>
       THEN pc' = "done" /\ outcome' = "returned"
       ELSE pc' = "configure" /\ outcome' = "running"

\* --------------------------------------------------------------- browser
ConfigureDriver ==
    /\ pc = "configure"
    /\ driver' = "active"
    /\ acquired' = acquired + 1
    /\ pc' = "fetch"
    /\ UNCHANGED <<files, storeExists, store, history, src, readOk, question_ids, idx,
                   results, released, abort, raising, saveFailed, outcome>>

\* uc.Chrome (got = FALSE) or a set_*_timeout call after it (got = TRUE) raises:
\* line 262 is outside the try, so run raises without reaching the finally
ConfigureDriverFails ==
    /\ pc = "configure"
    /\ \E got \in BOOLEAN :
        /\ driver' = IF got THEN "active" ELSE "none"
        /\ acquired' = IF got THEN acquired + 1 ELSE acquired
    /\ abort' = "configure"
    /\ raising' = "exception"
    /\ pc' = "done"
    /\ outcome' = "raised"
    /\ UNCHANGED <<files, storeExists, store, history, src, readOk, question_ids, idx,
                   results, released, saveFailed>>

\* ------------------------------------------------------------ fetch loop
InLoop == pc = "fetch" /\ idx <= Len(question_ids)

\* time.sleep(self.delay) raises (line 163 is outside the try of
\* _scrape_timeline_events): the exception leaves the loop
DelayRaises ==
    /\ InLoop
    /\ abort' = "exception"
    /\ raising' = "exception"
    /\ pc' = "except"
    /\ UNCHANGED <<files, storeExists, store, session, history, src, readOk, question_ids,
                   idx, results, saveFailed, outcome>>

\* a failed fetch whose empty result is appended all the same
ScrapeFailsAppends ==
    /\ InLoop
    /\ results' = Append(results, ScrapeResult(question_ids[idx], <<>>))
    /\ fetched' = Append(fetched, question_ids[idx])
    /\ failed' = failed \cup {question_ids[idx]}
    /\ pc' = "check"
    /\ UNCHANGED <<files, storeExists, store, session, src, readOk, question_ids, idx,
                   abort, raising, saveFailed, outcome, flushed, stats, store0, lost, later,
                   readFailures>>

\* a failed fetch tried again: the loop stays on the same id
ScrapeFailsRetries ==
    /\ InLoop
    /\ fetched' = Append(fetched, question_ids[idx])
    /\ failed' = failed \cup {question_ids[idx]}
    /\ pc' = "fetch"
    /\ UNCHANGED <<files, storeExists, store, session, src, readOk, question_ids, idx,
                   results, abort, raising, saveFailed, outcome, flushed, stats, store0, lost, later,
                   readFailures>>

\* driver.get or the parsing raises an Exception: logged, None returned,
\* nothing appended
ScrapeFails ==
    /\ InLoop
    /\ fetched' = Append(fetched, question_ids[idx])
    /\ failed' = failed \cup {question_ids[idx]}
    /\ pc' = "check"
    /\ UNCHANGED <<files, storeExists, store, session, src, readOk, question_ids, idx,
                   results, abort, raising, saveFailed, outcome, flushed, stats, store0, lost, later,
                   readFailures>>

\* the cells read without the test of line 185: a row lacking one raises
\* AttributeError, which the except of line 208 turns into None
ScrapeRaisesOnMissingCell ==
    /\ InLoop
    /\ IF \A i \in 1..Len(site[question_ids[idx]]) : Complete(site[question_ids[idx]][i])
       THEN /\ results' = Append(results, ScrapeResult(question_ids[idx], site[question_ids[idx]]))
            /\ failed' = failed
       ELSE /\ results' = results
            /\ failed' = failed \cup {question_ids[idx]}
    /\ fetched' = Append(fetched, question_ids[idx])
    /\ pc' = "check"
    /\ UNCHANGED <<files, storeExists, store, session, src, readOk, question_ids, idx,
                   abort, raising, saveFailed, outcome, flushed, stats, store0, lost, later,
                   readFailures>>

\* the page is fetched and parsed: the result is appended to the batch
ScrapeSucceeds ==
    /\ InLoop
    /\ results' = Append(results, ScrapeResult(question_ids[idx], site[question_ids[idx]]))
    /\ fetched' = Append(fetched, question_ids[idx])
    /\ pc' = "check"
    /\ UNCHANGED <<files, storeExists, store, session, src, readOk, question_ids, idx,
                   abort, raising, saveFailed, outcome, failed, flushed, stats, store0, lost, later,
                   readFailures>>

\* the threshold test written with > for >=
ShouldFlushStrict(n) == n > batch_size

\* len(results) >= self.batch_size
ShouldFlush(n) == n >= batch_size

\* write without append=True
WrittenOverwrites(exists, old, rows) == rows

\* the new rows put before the existing ones
WrittenPrepends(exists, old, rows) == IF exists THEN rows \o old ELSE rows

\* the store after write(results_path, df[, append=True])
Written(exists, old, rows) == IF exists THEN old \o rows ELSE rows

\* sum(...) of a list of counts
RECURSIVE Sum(_)
Sum(counts) == IF counts = <<>> THEN 0 ELSE Head(counts) + Sum(Tail(counts))

StartCount(row) == Len(row.bounty_start)

EndCount(row) == Len(row.bounty_end)

WithEvents(row) == IF StartCount(row) > 0 \/ EndCount(row) > 0 THEN 1 ELSE 0

\* the counts of the "Processed ... / Found ... / Total ..." lines of a batch
BatchStatistics(rows) ==
    [processed |-> Len(rows),
     questions_with_events |-> Sum([i \in 1..Len(rows) |-> WithEvents(rows[i])]),
     total_start_events |-> Sum([i \in 1..Len(rows) |-> StartCount(rows[i])]),
     total_end_events |-> Sum([i \in 1..Len(rows) |-> EndCount(rows[i])])]

\* the statistics logged without the early return for an empty batch
LoggedStatisticsAlways(lines, rows) == Append(lines, BatchStatistics(rows))

\* the statistics lines after _save_results(rows) returns: nothing is logged
\* for an empty batch, one record after the write otherwise
LoggedStatistics(lines, rows) ==
    IF rows = <<>> THEN lines ELSE Append(lines, BatchStatistics(rows))

\* _save_results(rows) returning normally
SaveResults(rows) ==
    /\ stats' = LoggedStatistics(stats, rows)
    /\ IF rows = <<>>
       THEN UNCHANGED <<store, storeExists, flushed>>
       ELSE /\ store' = Written(storeExists, store, rows)
            /\ storeExists' = TRUE
            /\ flushed' = flushed \o rows

\* a write error caught inside _save_results, the loop going on
SaveRaisesSwallowed(rows) ==
    /\ rows # <<>>
    /\ saveFailed' = TRUE
    /\ abort' = abort
    /\ raising' = raising
    /\ pc' = "fetch"
    /\ UNCHANGED <<store, storeExists, flushed, stats>>

\* _save_results(rows) raising from write: the store keeps its rows
SaveRaises(rows) ==
    /\ rows # <<>>
    /\ saveFailed' = TRUE
    /\ abort' = "exception"
    /\ raising' = "exception"
    /\ pc' = "except"
    /\ UNCHANGED <<store, storeExists, flushed, stats>>

\* lines 274-278 when the batch is full and the write succeeds
FlushBatch ==
    /\ pc = "check"
    /\ ShouldFlush(Len(results))
    /\ SaveResults(results)
    /\ results' = <<>>
    /\ idx' = idx + 1
    /\ pc' = "fetch"
    /\ UNCHANGED <<files, session, src, readOk, question_ids, abort, raising, saveFailed, outcome,
                   fetched, failed, store0, lost, later, readFailures>>

\* lines 274-275 when the write raises
FlushBatchFails ==
    /\ pc = "check"
    /\ ShouldFlush(Len(results))
    /\ SaveRaises(results)
    /\ UNCHANGED <<files, session, src, readOk, question_ids, idx, results, outcome,
                   fetched, failed, store0, lost, later, readFailures>>

\* lines 274-278 when the batch is not full
NoFlush ==
    /\ pc = "check"
    /\ ~ShouldFlush(Len(results))
    /\ idx' = idx + 1
    /\ pc' = "fetch"
    /\ UNCHANGED <<files, storeExists, store, session, history, src, readOk, question_ids,
                   results, abort, raising, saveFailed, outcome>>

\* the for loop is exhausted
LoopEnds ==
    /\ pc = "fetch"
    /\ idx > Len(question_ids)
    /\ pc' = "drain"
    /\ UNCHANGED <<files, storeExists, store, session, history, src, readOk, question_ids,
                   idx, results, abort, raising, saveFailed, outcome>>

\* run without lines 280-282: what the loop left in the batch is not saved
DrainSkipped ==
    /\ pc = "drain"
    /\ pc' = "finally"
    /\ UNCHANGED <<files, storeExists, store, session, history, src, readOk, question_ids,
                   idx, results, abort, raising, saveFailed, outcome>>

\* lines 280-287: the remaining results are saved (results is not reset)
DrainRemaining ==
    /\ pc = "drain"
    /\ SaveResults(results)
    /\ pc' = "finally"
    /\ UNCHANGED <<files, session, src, readOk, question_ids, idx, results, abort, raising,
                   saveFailed, outcome, fetched, failed, store0, lost, later, readFailures>>

\* line 282 when the write raises
DrainFails ==
    /\ pc = "drain"
    /\ SaveRaises(results)
    /\ UNCHANGED <<files, session, src, readOk, question_ids, idx, results, outcome,
                   fetched, failed, store0, lost, later, readFailures>>

\* a KeyboardInterrupt or SystemExit in the try body: no "except Exception"
\* catches it, the finally runs and it propagates
Interrupted ==
    /\ pc \in {"fetch", "check", "drain"}
    /\ abort' = "interrupt"
    /\ raising' = "interrupt"
    /\ pc' = "finally"
    /\ UNCHANGED <<files, storeExists, store, session, history, src, readOk, question_ids,
                   idx, results, saveFailed, outcome>>

\* a handler that saves the batch it finds
ExceptHandlerDrains ==
    /\ pc = "except"
    /\ raising' = "none"
    /\ pc' = "finally"
    /\ IF storeExists \/ results # <<>>
       THEN /\ store' = store \o results
            /\ storeExists' = TRUE
            /\ flushed' = flushed \o results
            /\ stats' = stats
       ELSE UNCHANGED <<store, storeExists, flushed, stats>>
    /\ UNCHANGED <<files, session, src, readOk, question_ids, idx, results, abort,
                   saveFailed, outcome, fetched, failed, store0, lost, later, readFailures>>

\* a handler that logs and re-raises
ExceptHandlerReraises ==
    /\ pc = "except"
    /\ pc' = "finally"
    /\ UNCHANGED <<files, storeExists, store, session, history, src, readOk, question_ids,
                   idx, results, abort, raising, saveFailed, outcome>>

\* lines 289-290: the exception is caught and logged, nothing else
ExceptHandler ==
    /\ pc = "except"
    /\ raising' = "none"
    /\ pc' = "finally"
    /\ UNCHANGED <<files, storeExists, store, session, history, src, readOk, question_ids,
                   idx, results, abort, saveFailed, outcome>>

\* the quit placed at the end of the try body instead of in a finally
FinallyLeaks ==
    /\ pc = "finally"
    /\ IF driver # "none" /\ abort = "none"
       THEN driver' = "quit" /\ released' = released + 1
       ELSE UNCHANGED <<driver, released>>
    /\ acquired' = acquired
    /\ pc' = "done"
    /\ outcome' = IF raising = "none" THEN "returned" ELSE "raised"
    /\ UNCHANGED <<files, storeExists, store, history, src, readOk, question_ids, idx,
                   results, abort, raising, saveFailed>>

\* lines 291-294, then run returns, or re-raises what was not caught
Finally ==
    /\ pc = "finally"
    /\ IF driver # "none"
       THEN driver' = "quit" /\ released' = released + 1
       ELSE UNCHANGED <<driver, released>>
    /\ acquired' = acquired
    /\ pc' = "done"
    /\ outcome' = IF raising = "none" THEN "returned" ELSE "raised"
    /\ UNCHANGED <<files, storeExists, store, history, src, readOk, question_ids, idx,
                   results, abort, raising, saveFailed>>

\* rows of the batch that no write has appended
Unflushed == {r \in Range(results) : r \notin Range(flushed)}

\* the process is killed: no handler runs, memory is lost, the files stay
Terminated ==
    /\ ~Ended
    /\ pc' = "killed"
    /\ outcome' = "killed"
    /\ lost' = {r.question_id : r \in Unflushed}
    /\ question_ids' = <<>>
    /\ idx' = 1
    /\ results' = <<>>
    /\ UNCHANGED <<files, storeExists, store, session, src, readOk, abort, raising, saveFailed,
                   fetched, failed, flushed, stats, store0, later, readFailures>>

Next ==
    \/ ReconcileSourceMissing
    \/ ReconcileSourceUnreadable
    \/ Reconcile
    \/ ConfigureDriver
    \/ ConfigureDriverFails
    \/ DelayRaises
    \/ ScrapeFails
    \/ ScrapeSucceeds
    \/ FlushBatch
    \/ FlushBatchFails
    \/ NoFlush
    \/ LoopEnds
    \/ DrainRemaining
    \/ DrainFails
    \/ Interrupted
    \/ ExceptHandler
    \/ Finally
    \/ Terminated

Spec == Init /\ [][Next]_vars

\* ------------------------------------------------- one run, run to its end
\* the steps the process takes by itself once run() has its list: run() is
\* straight-line code around one for loop, and the sleep and the page load
\* (set_page_load_timeout) are bounded
RunStep ==
    \/ ConfigureDriver
    \/ ConfigureDriverFails
    \/ DelayRaises
    \/ ScrapeFails
    \/ ScrapeSucceeds
    \/ FlushBatch
    \/ FlushBatchFails
    \/ NoFlush
    \/ LoopEnds
    \/ DrainRemaining
    \/ DrainFails
    \/ ExceptHandler
    \/ Finally

\* a single process: no new run is entered after this one ended
NextOneRun ==
    \/ pc = "start" /\ ReconcileSourceMissing
    \/ pc = "start" /\ ReconcileSourceUnreadable
    \/ pc = "start" /\ Reconcile
    \/ RunStep
    \/ Interrupted
    \/ Terminated

SpecOneRun ==
    /\ Init
    /\ [][NextOneRun]_vars
    /\ WF_vars(pc = "start" /\ (ReconcileSourceMissing \/ ReconcileSourceUnreadable \/ Reconcile))
    /\ WF_vars(RunStep)

\* ---------------------------------------- the reconciler on arbitrary tables
\* any rows in the two tables: repeated ids, any order
InitReconcile ==
    /\ idsRows \in SeqsUpTo(Ids, MaxIdsRows)
    /\ storeExists \in BOOLEAN
    /\ store \in {EarlierRows(ids) : ids \in SeqsUpTo(Ids, MaxStoreRows)}
    /\ (~storeExists => store = <<>>)
    /\ batch_size \in 0..MaxBatch
    /\ site = [id \in Ids |-> Timeline(id)]
    /\ later = FALSE
    /\ readFailures = 0
    /\ pc = "start"
    /\ src = "ok"
    /\ readOk = TRUE
    /\ question_ids = <<>>
    /\ idx = 1
    /\ results = <<>>
    /\ driver = "none"
    /\ acquired = 0
    /\ released = 0
    /\ abort = "none"
    /\ raising = "none"
    /\ saveFailed = FALSE
    /\ outcome = "running"
    /\ fetched = <<>>
    /\ failed = {}
    /\ flushed = <<>>
    /\ stats = <<>>
    /\ store0 = store
    /\ lost = {}

NextReconcile ==
    \/ ReconcileSourceMissing
    \/ ReconcileSourceUnreadable
    \/ Reconcile

SpecReconcile == InitReconcile /\ [][NextReconcile]_vars

\* ------------------------------------- _save_results on arbitrary batches
\* a scraper about to save, the store missing or left by an earlier harvest
InitSave ==
    /\ idsRows = <<>>
    /\ storeExists \in BOOLEAN
    /\ store \in {EarlierRows(Ascending(P)) : P \in SUBSET Ids}
    /\ (~storeExists => store = <<>>)
    /\ batch_size = MaxBatch
    /\ site = [id \in Ids |-> Timeline(id)]
    /\ later = FALSE
    /\ readFailures = 0
    /\ pc = "check"
    /\ src = "ok"
    /\ readOk = TRUE
    /\ question_ids = <<>>
    /\ idx = 1
    /\ results = <<>>
    /\ driver = "active"
    /\ acquired = 1
    /\ released = 0
    /\ abort = "none"
    /\ raising = "none"
    /\ saveFailed = FALSE
    /\ outcome = "running"
    /\ fetched = <<>>
    /\ failed = {}
    /\ flushed = <<>>
    /\ stats = <<>>
    /\ store0 = store
    /\ lost = {}

\* _save_results(results) called with some list of result dicts
SaveCall ==
    /\ Len(stats) < MaxWrites
    /\ \E ids \in SeqsUpTo(Ids, MaxBatch) :
        results' = [i \in 1..Len(ids) |-> ScrapeResult(ids[i], site[ids[i]])]
    /\ SaveResults(results')
    /\ UNCHANGED <<files, session, pc, src, readOk, question_ids, idx, abort, raising,
                   saveFailed, outcome, fetched, failed, store0, lost, later, readFailures>>

NextSave == SaveCall

SpecSave == InitSave /\ [][NextSave]_vars

\* ------------------------------------------- extraction on arbitrary pages
\* the texts a td.wmn1 cell may hold, NoCell when the row has no such cell
Labels ==
    {NoCell, <<"bounty", "started">>, <<"bounty", "ended">>, <<"Bounty", "Started">>,
     <<"bounty", "started", "bounty", "ended">>, <<"bounty", "Ended">>, <<"edited">>}

\* the title attributes a span.relativetime may hold, None when it has no
\* title, NoCell when the row has no such span
Titles == {NoCell, None, <<"T1">>, <<"[", "T2", "]">>}

Pages == SeqsUpTo([event_cell : Labels, date_cell : Titles], MaxRows)

\* one pending question, the browser configured, any page served for it
InitExtract ==
    /\ idsRows = <<1>>
    /\ storeExists = FALSE
    /\ store = <<>>
    /\ batch_size = MaxBatch
    /\ site \in {[id \in Ids |-> page] : page \in Pages}
    /\ later = FALSE
    /\ readFailures = 0
    /\ pc = "fetch"
    /\ src = "ok"
    /\ readOk = TRUE
    /\ question_ids = <<1>>
    /\ idx = 1
    /\ results = <<>>
    /\ driver = "active"
    /\ acquired = 1
    /\ released = 0
    /\ abort = "none"
    /\ raising = "none"
    /\ saveFailed = FALSE
    /\ outcome = "running"
    /\ fetched = <<>>
    /\ failed = {}
    /\ flushed = <<>>
    /\ stats = <<>>
    /\ store0 = <<>>
    /\ lost = {}

NextExtract == ScrapeSucceeds

SpecExtract == InitExtract /\ [][NextExtract]_vars

\* ================================================================ claims
\* a new process enters run() after the earlier one ended
Rerun == Ended /\ later'

\* the ids the store holds, whether or not a run manages to read it
StoredIds == IF storeExists THEN QuestionIdsOf(store) ELSE {}

\* the reconciler returned a list: the source was read and the store, if any, too
Reconciled == pc \in {"configure", "done"} /\ src = "ok" /\ abort = "none" /\ readOk

\* C1: with a readable store, the list returned by _get_unprocessed_question_ids
\* holds exactly the target ids that the store does not hold, each once,
\* whatever the order and the repetitions of the rows of the two tables.
C1_ReconcilerDifference ==
    Reconciled =>
        /\ \A i \in 1..Len(question_ids) :
              question_ids[i] \in Range(idsRows) /\ question_ids[i] \notin StoredIds
        /\ \A id \in Range(idsRows) : id \notin StoredIds => id \in Range(question_ids)
        /\ NoDuplicates(question_ids)

C1_Witness ==
    /\ Reconciled
    /\ pc = "configure"
    /\ ~NoDuplicates(idsRows)
    /\ ~NoDuplicates(store)
    /\ Range(idsRows) \cap StoredIds # {}
    /\ idsRows[1] > idsRows[Len(idsRows)]

\* C2: a run that follows another on the same files and reads the store has no
\* id in its pending list that the earlier run appended, and fetches only
\* target ids that the store did not hold when it started.
C2_NoRefetch ==
    /\ [][(Rerun /\ src' = "ok" /\ readOk') =>
            Range(question_ids') \cap QuestionIdsOf(flushed) = {}]_vars
    /\ [](readOk =>
            \A i \in 1..Len(fetched) :
                /\ fetched[i] \in Range(idsRows)
                /\ fetched[i] \notin QuestionIdsOf(store0))

C2_Witness ==
    /\ later
    /\ readOk
    /\ fetched # <<>>
    /\ \E i \in 1..Len(store0) : store0[i].bounty_start # <<>>

\* the id of the latest fetch of this run
LastFetched == fetched[Len(fetched)]

ResultIds == {r.question_id : r \in Range(results)}

ThroughTry == abort \in {"none", "exception", "interrupt"}

\* C6: a run creates at most one browser session; a run that entered the try
\* block with a session has quit it exactly once when it ends, whether it ended
\* normally, by an unexpected error in the loop or by a failed append; quit is
\* never called twice, and no page is fetched unless the session is live.
C6_SessionReleasedOnce ==
    /\ [](acquired <= 1 /\ released <= acquired)
    /\ []((pc = "done" /\ ThroughTry /\ acquired = 1) =>
            (released = 1 /\ driver = "quit"))
    /\ [][(~Ended /\ fetched' # fetched) => (driver = "active" /\ released = 0)]_vars
    /\ [][(~Ended /\ released' # released) => driver = "active"]_vars

C6_Witness ==
    /\ pc = "done"
    /\ saveFailed
    /\ fetched # <<>>
    /\ acquired = 1
    /\ released = 1

\* C7 as stated: a missing or unreadable target-ID table ends the run with an
\* error that reaches the caller, before any session or fetch.
C7_AsStated ==
    (pc = "done" /\ src \in {"missing", "unreadable"}) =>
        (outcome = "raised" /\ acquired = 0 /\ fetched = <<>>)

\* C7, amended: a missing target-ID table is logged and run returns normally,
\* raising nothing; a table that exists and cannot be read makes run raise the
\* read error to its caller. Either way no session is created, no page is
\* fetched and the store is not written.
C7_SourceUnavailable ==
    /\ (pc = "done" /\ src = "missing") => (outcome = "returned" /\ raising = "none")
    /\ (pc = "done" /\ src = "unreadable") => (outcome = "raised" /\ raising = "exception")
    /\ (pc = "done" /\ src \in {"missing", "unreadable"}) =>
          /\ acquired = 0
          /\ driver = "none"
          /\ fetched = <<>>
          /\ store = store0

C7_Witness ==
    /\ pc = "done"
    /\ src = "missing"
    /\ outcome = "returned"
    /\ idsRows # <<>>
    /\ later

\* C8 as stated: an unexpected error of the fetch loop reaches the caller of run.
C8_AsStated == (pc = "done" /\ abort = "exception") => outcome = "raised"

\* C8, amended: an Exception raised in the fetch loop outside the per-item
\* try (by the delay or by a store append) is caught and logged by run, which
\* returns normally after quitting the session: nothing reaches the caller.
\* Only what is no Exception (KeyboardInterrupt, SystemExit) propagates, and
\* it does so after the session was quit.
C8_LoopErrorsSwallowed ==
    /\ (pc = "done" /\ abort = "exception") =>
          (outcome = "returned" /\ raising = "none" /\ released = 1)
    /\ (pc = "done" /\ abort = "interrupt") =>
          (outcome = "raised" /\ raising = "interrupt" /\ released = 1)
    /\ (pc = "done" /\ abort = "none") => outcome = "returned"

C8_Witness ==
    /\ pc = "done"
    /\ abort = "exception"
    /\ ~saveFailed
    /\ outcome = "returned"
    /\ released = 1

\* a write of the fetch loop (line 275) appended rows in this step
LoopFlush == pc = "check" /\ ~Ended /\ flushed' # flushed

\* C9: with a batch size of at least 1 the batch never holds more than
\* batch_size results; the loop writes the batch at the step where its length
\* reaches batch_size, every batch the loop writes has exactly batch_size
\* results, and the batch is empty after the write; only the batch written
\* after the loop may be shorter.
C9_BatchBound ==
    /\ [](batch_size >= 1 => Len(results) <= batch_size)
    /\ [][(batch_size >= 1 /\ LoopFlush) =>
            /\ Len(results) = batch_size
            /\ Len(flushed') = Len(flushed) + batch_size
            /\ results' = <<>>]_vars
    /\ [][(batch_size >= 1 /\ pc = "check" /\ Len(results) = batch_size /\ pc' = "fetch") =>
            (LoopFlush /\ results' = <<>>)]_vars
    /\ [][(batch_size >= 1 /\ pc = "drain" /\ flushed' # flushed) =>
            (Len(results) < batch_size /\ flushed' = flushed \o results)]_vars

C9_Witness ==
    /\ batch_size = 2
    /\ pc = "finally"
    /\ Len(flushed) = 2
    /\ results = <<>>
    /\ Len(fetched) = 2

C11_UnreadableStoreAllPending ==
    (src = "ok" /\ ~readOk /\ pc # "killed") =>
        /\ storeExists
        /\ Range(question_ids) = AllBountyIds
        /\ NoDuplicates(question_ids)
        /\ abort # "source"
        /\ (idsRows # <<>> => ~(pc = "done" /\ abort = "none" /\ acquired = 0))

\* a run whose store read raised fetches an id the store already holds
C11_Witness ==
    /\ src = "ok"
    /\ ~readOk
    /\ fetched # <<>>
    /\ fetched[1] \in QuestionIdsOf(store0)
    /\ Len(question_ids) = Len(idsRows)

\* ------------------------------------------------------------------ C12
\* rows of flushed covered by the statistics lines before line k
StatsOffset(k) == Sum([i \in 1..(k - 1) |-> stats[i].processed])

C13_AppendedIdsInUniverseOnce ==
    /\ Range(fetched) \subseteq AllBountyIds
    /\ QuestionIdsOf(flushed) \subseteq AllBountyIds
    /\ QuestionIdsOf(store) \subseteq (QuestionIdsOf(store0) \cup AllBountyIds)
    /\ Cardinality(Range(fetched)) = Len(fetched)
    /\ Cardinality(QuestionIdsOf(flushed)) = Len(flushed)
    /\ Cardinality(QuestionIdsOf(results)) = Len(results)

\* a later run appends the second id after an earlier run appended the first
C13_Witness ==
    /\ later
    /\ pc = "done"
    /\ Len(fetched) = 1
    /\ Len(flushed) = 1
    /\ \E i \in 1..Len(store0) :
        /\ store0[i].bounty_start # <<>>
        /\ store0[i].question_id # flushed[1].question_id

\* ------------------------------------------------------------------ C14
\* C14: the batches saved one after the other are in the store one after
\* the other: a first non-empty batch creates a missing store, each later one
\* is added after the rows already there, which stay as they were, rows keep
\* the order they had in their batch, and after batches of m and n rows a
\* store that was empty has m + n rows.
C14_AppendsInOrder ==
    /\ [](/\ stats # <<>> => storeExists
          /\ Len(store) = Len(store0) + StatsOffset(Len(stats) + 1)
          /\ store = store0 \o flushed
          /\ (results # <<>> =>
                SubSeq(store, Len(store) - Len(results) + 1, Len(store)) = results))
    /\ [][/\ IsPrefix(store, store')
           /\ Len(store') = Len(store) + Len(results')]_vars

\* a batch of two rows, then a batch of one other row
C14_Witness ==
    /\ store0 = <<>>
    /\ Len(stats) = 2
    /\ stats[1].processed = 2
    /\ stats[2].processed = 1
    /\ Len(store) = 3
    /\ store[3] # store[1]
    /\ store[3] = results[1]

\* ------------------------------------------------------------------ C15
\* C15: a run whose pending list is empty is at its end as soon as the
\* reconciler has answered: it returns normally, has created no browser
\* session, fetched nothing, appended nothing and logged no statistics, and
\* the store is as the run found it.
C15_NothingPendingNothingDone ==
    (src = "ok" /\ question_ids = <<>> /\ pc \notin {"start", "killed"}) =>
        /\ pc = "done"
        /\ outcome = "returned"
        /\ raising = "none"
        /\ abort = "none"
        /\ driver = "none"
        /\ acquired = 0
        /\ released = 0
        /\ fetched = <<>>
        /\ flushed = <<>>
        /\ stats = <<>>
        /\ store = store0

\* every target id is already in the store: the run ends at once
C15_Witness ==
    /\ pc = "done"
    /\ src = "ok"
    /\ readOk
    /\ question_ids = <<>>
    /\ Len(idsRows) = 2
    /\ AllBountyIds \subseteq QuestionIdsOf(store)

\* ------------------------------------------------------------------ C16
\* str.lower() on the words of the pages
Lower(word) ==
    CASE word = "Bounty" -> "bounty"
      [] word = "Started" -> "started"
      [] word = "Ended" -> "ended"
      [] OTHER -> word

LowerText(text) == [i \in 1..Len(text) |-> Lower(text[i])]

\* the page of the question that was just parsed, and its result
ParsedPage == site[fetched[Len(fetched)]]

Parsed == pc = "check" /\ fetched # <<>> /\ failed = {} /\ results # <<>>

\* the cleaned timestamps, in document order, of the rows with both cells
\* whose label, lower-cased first when fold is TRUE, contains the needle
Matching(rows, needle, fold) ==
    LET Hit(row) ==
            /\ Complete(row)
            /\ Contains(IF fold THEN LowerText(row.event_cell) ELSE row.event_cell, needle)
        hits == SelectSeq(rows, Hit)
    IN [i \in 1..Len(hits) |-> CleanDate(hits[i].date_cell)]

\* C16 as stated: the lists hold the timestamps of the rows whose lower-cased
\* label contains "bounty started", resp. "bounty ended".
C16_AsStated ==
    Parsed =>
        /\ results[Len(results)].bounty_start = Matching(ParsedPage, BountyStarted, TRUE)
        /\ results[Len(results)].bounty_end = Matching(ParsedPage, BountyEnded, TRUE)

\* C16: bounty_start holds, in document order, the timestamps of the rows
\* with both cells whose label text as it stands (no case folding) contains
\* "bounty started", bounty_end those whose label contains "bounty ended";
\* the two tests are independent, so a label with both texts gives its
\* timestamp to both lists and a label with neither to none.
C16_CaseSensitiveLabels ==
    Parsed =>
        /\ results[Len(results)].bounty_start = Matching(ParsedPage, BountyStarted, FALSE)
        /\ results[Len(results)].bounty_end = Matching(ParsedPage, BountyEnded, FALSE)

\* a page with a capitalised label and a label holding both texts
C16_Witness ==
    /\ Parsed
    /\ Len(ParsedPage) = 2
    /\ ParsedPage[1].event_cell = <<"Bounty", "Started">>
    /\ ParsedPage[1].date_cell = <<"T1">>
    /\ ParsedPage[2].event_cell = <<"bounty", "started", "bounty", "ended">>
    /\ ParsedPage[2].date_cell = <<"[", "T2", "]">>
    /\ results[1].bounty_start = << <<"T2">> >>
    /\ results[1].bounty_end = << <<"T2">> >>

\* ------------------------------------------------------------------ C17
\* C17: a row without the label cell or without the timestamp cell gives
\* nothing to either list and does not make the parse fail: the question has
\* a result, which is the one the page would give without such rows.
C17_IncompleteRowsSkipped ==
    (pc = "check" /\ fetched # <<>>) =>
        /\ failed = {}
        /\ Len(results) = Len(fetched)
        /\ results[Len(results)] =
              ScrapeResult(fetched[Len(fetched)], SelectSeq(ParsedPage, Complete))
        /\ Len(results[Len(results)].bounty_start) <= Len(SelectSeq(ParsedPage, Complete))
        /\ Len(results[Len(results)].bounty_end) <= Len(SelectSeq(ParsedPage, Complete))

\* a bounty row without its timestamp cell, then a complete one
C17_Witness ==
    /\ Parsed
    /\ Len(ParsedPage) = 2
    /\ ParsedPage[1].event_cell = <<"bounty", "started">>
    /\ ParsedPage[1].date_cell = NoCell
    /\ ParsedPage[2].event_cell = <<"bounty", "ended">>
    /\ ParsedPage[2].date_cell = None
    /\ results[1] = [question_id |-> 1, bounty_start |-> <<>>, bounty_end |-> <<None>>]

\* ------------------------------------------------------------------ C18
\* the results of the ids fetched without error, in the order of the fetches
Succeeded ==
    LET Ok(id) == id \notin failed
        ids == SelectSeq(fetched, Ok)
    IN [i \in 1..Len(ids) |-> ScrapeResult(ids[i], site[ids[i]])]

\* C18: when run returns after a run in which no write raised and nothing
\* else went wrong, every pending id was fetched once in list order, no
\* result is left in memory that the store lacks (the list of line 266 is
\* not reset after the last save and goes away with the frame), and the rows
\* the run added to the store are the results of the ids whose fetch and
\* parse succeeded, one row each, in processing order.
C18_CleanRunSavesEverySuccess ==
    (pc = "done" /\ src = "ok" /\ abort = "none" /\ ~saveFailed) =>
        /\ outcome = "returned"
        /\ fetched = question_ids
        /\ Unflushed = {}
        /\ flushed = Succeeded
        /\ store = store0 \o Succeeded
        /\ Len(flushed) = Len(fetched) - Cardinality(failed)

\* a clean run with a failed fetch whose one result is saved after the loop
C18_Witness ==
    /\ pc = "done"
    /\ abort = "none"
    /\ batch_size = 2
    /\ Len(fetched) = 2
    /\ failed = {fetched[1]}
    /\ Len(flushed) = 1
    /\ flushed[1].question_id = fetched[2]
    /\ Len(store0) > 0

\* ------------------------------------------------------------------ C19
\* C19: as long as no run failed to read the store, the store holds at most
\* one row per question id, at every moment of every run and after any
\* number of runs, whatever fetch failed, write raised, or run was aborted
\* or killed.
C19_OneRowPerQuestion ==
    readFailures = 0 => Cardinality(QuestionIdsOf(store)) = Len(store)

\* a third run at least: after a run that appended and one that did not,
\* the store holds a row of an earlier run and a row of this one
C19_Witness ==
    /\ readFailures = 0
    /\ later
    /\ pc = "done"
    /\ Len(store) = 2
    /\ Len(flushed) = 1
    /\ failed = {}
    /\ store0 # <<>>
    /\ store0[1].bounty_start # <<>>

\* ------------------------------------------------------------------ C20
\* C20: every run comes to its end: the ids fetched so far are the first
\* ids of the pending list, each once (no id is tried again), a run that
\* has ended after its browser was configured has released it, and a run
\* that has not ended will end.
C20_RunTerminates ==
    /\ [](pc # "killed" => IsPrefix(fetched, question_ids))
    /\ []((pc = "done" /\ abort # "configure") => (driver # "active" /\ released = acquired))
    /\ (~Ended ~> Ended)

\* a run with a failed fetch and a raising write that ended, session released
C20_Witness ==
    /\ pc = "done"
    /\ outcome = "returned"
    /\ failed # {}
    /\ saveFailed
    /\ Len(fetched) = 2
    /\ driver = "quit"
    /\ released = 1

====
